---- MODULE Spec2Model ----
(***************************************************************************)
(* State-machine model of the speed-tester repository.                     *)
(*                                                                         *)
(* Three scripts are modelled, one run of one script per behaviour:        *)
(*   "submitter"  the retrying submitter (src/unnamed/part_000)            *)
(*   "batch"      the batch submitter    (src/request-tests.js)            *)
(*   "collector"  the collector/report pipeline (src/index.js)             *)
(* The value "call" of entry stands for a direct call of                   *)
(* safeRequestWithRetry(params, retries) with an arbitrary retries >= 1;   *)
(* it is only used by SpecRetry.  The value "report" stands for a direct    *)
(* call of buildStaticPage(results); it is used by SpecReport and          *)
(* SpecScores.  SpecSubmit is the retrying submitter alone, with the       *)
(* fairness of the event loop.                                             *)
(*                                                                         *)
(* Every await of the scripts is a step boundary: a request is issued by   *)
(* one action and settled (resolved or rejected) by another, and a timer   *)
(* delay elapses in an action of its own.  Time is measured by `waited`,   *)
(* the milliseconds of timer delay elapsed since the last request was      *)
(* issued; each issued request records it in `sent`.                       *)
(***************************************************************************)
EXTENDS Integers, Sequences, FiniteSets, TLC

VARIABLES
    entry,            \* which script runs
    apiKey,           \* process.env.SPEEDVITALS_API_KEY
    urls,             \* URLS_TO_TEST
    pc,               \* position of the script
    exitCode,         \* -1 while running, else the process exit code
    retries,          \* safeRequestWithRetry: parameter retries
    params,           \* safeRequestWithRetry: parameter params
    attempt,          \* safeRequestWithRetry: loop variable attempt
    delayMs,          \* safeRequestWithRetry: local delayMs
    lastErr,          \* error caught by the most recent failed attempt / thrown
    response,         \* response returned by safeRequestWithRetry
    inFlight,         \* number of provider requests issued and not settled
    sent,             \* every provider request issued, in order
    waited,           \* ms of timer delay elapsed since the last request was issued
    i,                \* index of the outer loop (URL) of runAllTests
    j,                \* index of the location loop
    logs,             \* per-location console lines of the submitter loop
    results,          \* runAllTests: local results
    file,             \* data/results.json
    fileAtStart,      \* data/results.json as it was when the run started
    allResults,       \* updateResultsFile: local allResults
    html,             \* public/index.html
    fsOps             \* file-system calls made, in order

vars == <<entry, apiKey, urls, pc, exitCode, retries, params, attempt, delayMs,
          lastErr, response, inFlight, sent, waited, i, j, logs, results, file,
          fileAtStart, allResults, html, fsOps>>

retryVars == <<retries, params, attempt, delayMs, lastErr, response>>
netVars == <<inFlight, sent, waited>>
collectVars == <<results, file, fileAtStart, allResults, html, fsOps>>
configVars == <<entry, apiKey, urls>>

----------------------------------------------------------------------------
(* Bounds *)

\* largest value of the parameter retries of a direct call
MaxRetries == 4
\* longest URL list read from URLS_TO_TEST_SECRET
MaxUrls == 2
\* longest dataset already stored in data/results.json when the run starts
MaxExisting == 2
\* longest dataset passed to a direct call of buildStaticPage
MaxResults == 3

----------------------------------------------------------------------------
(* Configuration *)

DEFAULT_URLS == <<"https://www.sheffield.ac.uk">>

LOCATIONS_TO_TEST == <<"uk", "in", "id", "us", "jp">>

\* url of apiParams in the submitter's main (not taken from URLS_TO_TEST)
SubmitterUrl == "https://sheffield.ac.uk"

\* default of the parameter retries
DefaultRetries == 3

\* initial value of delayMs
BaseDelayMs == 1000

\* delay(2000) at the end of each iteration of the submitter loop
ThrottleMs == 2000

\* URLs that URLS_TO_TEST_SECRET may list
SecretUrl(n) == IF n = 1 THEN "https://a.test"
                ELSE IF n = 2 THEN "https://b.test"
                ELSE "https://c.test"

\* URLS_TO_TEST: the secret split on commas, or DEFAULT_URLS when it is unset
UrlLists == {DEFAULT_URLS} \cup { [n \in 1..m |-> SecretUrl(n)] : m \in 1..MaxUrls }

\* values of process.env.SPEEDVITALS_API_KEY
ApiKeys == {"unset", "empty", "set"}

\* faulty variant of KeyMissing: the key is never tested
KeyMissingNever(k) == FALSE
\* !API_KEY
KeyMissing(k) == k \in {"unset", "empty"}

ErrKinds == {"transient", "permanent"}

NoErr == [kind |-> "none", attempt |-> 0]
NoParams == [url |-> "", location |-> ""]
NoResponse == [location |-> "", attempt |-> 0]

----------------------------------------------------------------------------
(* data/results.json *)

\* ISO-8601 timestamps of results, oldest first
Timestamps == <<"2024-01-01T00:00:00Z", "2024-01-02T00:00:00Z", "2024-01-03T00:00:00Z">>

\* performance score of the result with the n-th timestamp
Scores == <<95, 60, 45>>

\* a result stored by an earlier run
OldResult(n) == [status |-> "success", url |-> "https://old.test", location |-> LOCATIONS_TO_TEST[n],
                 timestamp |-> Timestamps[((n - 1) % 2) + 1], performance |-> Scores[((n - 1) % 2) + 1]]

\* JSON.stringify(allResults, null, 2): the text of a JSON array
JSONstringify(seq) == [kind |-> "array", items |-> seq]

\* no data/results.json
NoFile == [kind |-> "absent", items |-> <<>>]

\* datasets earlier runs can have stored
OldDatasets == { [n \in 1..m |-> OldResult(n)] : m \in 0..MaxExisting }

\* contents data/results.json can have when a run starts; items are the
\* results the file holds (the longest dataset for the kinds that cannot be
\* read or parsed):
\*   absent      no such file (readFile fails with ENOENT)
\*   array       the text of a JSON array
\*   badjson     text that is not JSON, such as a truncated array
\*               (JSON.parse throws SyntaxError)
\*   unreadable  a JSON array, but readFile fails with a code other than ENOENT
\*   object      JSON text of a value that is not iterable, such as
\*               {"results": [...]}
Files == { JSONstringify(d) : d \in OldDatasets }
         \cup { [kind |-> k, items |-> d] : k \in {"badjson", "unreadable", "object"},
                                            d \in { e \in OldDatasets : Len(e) = MaxExisting } }
         \cup { NoFile }

\* html before the run: absent
NoHtml == [kind |-> "absent", chart |-> <<>>, tables |-> <<>>]

----------------------------------------------------------------------------
(* Initial states *)

InitCommon ==
    /\ apiKey \in ApiKeys
    /\ urls \in UrlLists
    /\ exitCode = -1
    /\ lastErr = NoErr
    /\ response = NoResponse
    /\ inFlight = 0
    /\ sent = <<>>
    /\ waited = 0
    /\ i = 1
    /\ j = 1
    /\ logs = <<>>
    /\ results = <<>>
    /\ fileAtStart = file
    /\ allResults = <<>>
    /\ html = NoHtml
    /\ fsOps = <<>>

\* only the collector touches data/results.json
Init ==
    /\ entry \in {"submitter", "batch", "collector"}
    /\ file \in IF entry = "collector" THEN Files ELSE {NoFile}
    /\ pc = "start"
    /\ retries = DefaultRetries
    /\ params = NoParams
    /\ attempt = 0
    /\ delayMs = 0
    /\ InitCommon

----------------------------------------------------------------------------
(* safeRequestWithRetry (src/unnamed/part_000) *)

\* faulty variant of Call: delayMs outlives the call
CallKeepsDelay(p, r) ==
    /\ params' = p
    /\ retries' = r
    /\ attempt' = 1
    /\ delayMs' = IF delayMs = 0 THEN BaseDelayMs ELSE delayMs
    /\ lastErr' = NoErr
    /\ response' = NoResponse
    /\ pc' = "post"
\* entering safeRequestWithRetry(p, r): delayMs = 1000, attempt = 1
Call(p, r) ==
    /\ params' = p
    /\ retries' = r
    /\ attempt' = 1
    /\ delayMs' = BaseDelayMs
    /\ lastErr' = NoErr
    /\ response' = NoResponse
    /\ pc' = "post"

\* faulty variant of LastAttempt: the catch block never rethrows
LastAttemptNever(a, r) == a > r
\* attempt === retries
LastAttempt(a, r) == a = r

\* faulty variant of NextDelay: the delay is not doubled
NextDelaySame(d) == d
\* delayMs *= 2
NextDelay(d) == d * 2

\* the loop body up to the await: axios.post is called
Post ==
    /\ pc = "post"
    /\ attempt <= retries
    /\ inFlight' = inFlight + 1
    /\ sent' = Append(sent, [url |-> params.url, location |-> params.location,
                             attempt |-> attempt, wait |-> waited])
    /\ waited' = 0
    /\ pc' = "await"
    /\ UNCHANGED <<configVars, exitCode, retryVars, i, j, logs, collectVars>>

\* the request resolves: return response
PostResolve ==
    /\ pc = "await"
    /\ inFlight' = inFlight - 1
    /\ response' = [location |-> params.location, attempt |-> attempt]
    /\ pc' = "returned"
    /\ UNCHANGED <<configVars, exitCode, retries, params, attempt, delayMs, lastErr,
                   sent, waited, i, j, logs, collectVars>>

\* faulty variant of PostReject: a permanent error is rethrown at once
PostRejectClassifies ==
    /\ pc = "await"
    /\ \E k \in ErrKinds :
          /\ lastErr' = [kind |-> k, attempt |-> attempt]
          /\ pc' = IF LastAttempt(attempt, retries) \/ k = "permanent" THEN "thrown" ELSE "backoff"
    /\ inFlight' = inFlight - 1
    /\ UNCHANGED <<configVars, exitCode, retries, params, attempt, delayMs, response,
                   sent, waited, i, j, logs, collectVars>>
\* the request rejects: the catch block, up to throw err or await delay(delayMs)
PostReject ==
    /\ pc = "await"
    /\ \E k \in ErrKinds : lastErr' = [kind |-> k, attempt |-> attempt]
    /\ inFlight' = inFlight - 1
    /\ pc' = IF LastAttempt(attempt, retries) THEN "thrown" ELSE "backoff"
    /\ UNCHANGED <<configVars, exitCode, retries, params, attempt, delayMs, response,
                   sent, waited, i, j, logs, collectVars>>

\* delay(delayMs) elapses: delayMs *= 2; attempt++
Backoff ==
    /\ pc = "backoff"
    /\ waited' = waited + delayMs
    /\ delayMs' = NextDelay(delayMs)
    /\ attempt' = attempt + 1
    /\ pc' = "post"
    /\ UNCHANGED <<configVars, exitCode, retries, params, lastErr, response,
                   inFlight, sent, i, j, logs, collectVars>>

----------------------------------------------------------------------------
(* main of the retrying submitter (src/unnamed/part_000) *)

SubmitterParams(n) == [url |-> SubmitterUrl, location |-> LOCATIONS_TO_TEST[n]]

\* main up to the first await: the API key check, then the first iteration
\* of the loop calls safeRequestWithRetry(params)
SubmitterStart ==
    /\ pc = "start"
    /\ entry = "submitter"
    /\ IF KeyMissing(apiKey)
       THEN /\ pc' = "exited"
            /\ exitCode' = 1
            /\ UNCHANGED <<retryVars, j>>
       ELSE /\ j' = 1
            /\ Call(SubmitterParams(1), DefaultRetries)
            /\ UNCHANGED exitCode
    /\ UNCHANGED <<configVars, netVars, i, logs, collectVars>>

\* console.log(`Success for ${location}:`, response.data)
MainSuccess ==
    /\ pc = "returned"
    /\ entry = "submitter"
    /\ logs' = Append(logs, [location |-> LOCATIONS_TO_TEST[j], line |-> "Success", err |-> NoErr])
    /\ pc' = "throttle"
    /\ UNCHANGED <<configVars, exitCode, retryVars, netVars, i, j, collectVars>>

\* faulty variant of MainFailure: the failure ends the run
MainFailureAborts ==
    /\ pc = "thrown"
    /\ entry = "submitter"
    /\ logs' = Append(logs, [location |-> LOCATIONS_TO_TEST[j], line |-> "Failed", err |-> lastErr])
    /\ pc' = "exited"
    /\ exitCode' = 1
    /\ UNCHANGED <<configVars, retryVars, netVars, i, j, collectVars>>
\* catch (err): console.error(`Failed for ${location} after retries:`, ...)
MainFailure ==
    /\ pc = "thrown"
    /\ entry = "submitter"
    /\ logs' = Append(logs, [location |-> LOCATIONS_TO_TEST[j], line |-> "Failed", err |-> lastErr])
    /\ pc' = "throttle"
    /\ UNCHANGED <<configVars, exitCode, retryVars, netVars, i, j, collectVars>>

\* faulty variant of ThrottleAfter: no delay after a failed location
ThrottleAfterSuccessOnly(l) == IF l = "Success" THEN ThrottleMs ELSE 0
\* ms the loop waits after a location whose last console line is l:
\* delay(2000) follows the try/catch
ThrottleAfter(l) == ThrottleMs

\* await delay(2000) elapses; the next iteration calls safeRequestWithRetry,
\* or the loop and main end
Throttle ==
    /\ pc = "throttle"
    /\ waited' = waited + ThrottleAfter(logs[Len(logs)].line)
    /\ IF j < Len(LOCATIONS_TO_TEST)
       THEN /\ j' = j + 1
            /\ Call(SubmitterParams(j + 1), DefaultRetries)
            /\ UNCHANGED exitCode
       ELSE /\ pc' = "done"
            /\ exitCode' = 0
            /\ UNCHANGED <<retryVars, j>>
    /\ UNCHANGED <<configVars, inFlight, sent, i, logs, collectVars>>

----------------------------------------------------------------------------
(* main of the batch submitter (src/request-tests.js) *)

\* apiParams: the first URL and the whole list of locations
BatchParams == [url |-> urls[1], location |-> "all"]

\* main up to the await: the API key check, then axios.post is called
BatchStart ==
    /\ pc = "start"
    /\ entry = "batch"
    /\ IF KeyMissing(apiKey)
       THEN /\ pc' = "exited"
            /\ exitCode' = 1
            /\ UNCHANGED <<netVars, params>>
       ELSE /\ params' = BatchParams
            /\ inFlight' = inFlight + 1
            /\ sent' = Append(sent, [url |-> BatchParams.url, location |-> BatchParams.location,
                                     attempt |-> 1, wait |-> waited])
            /\ waited' = 0
            /\ pc' = "batch_await"
            /\ UNCHANGED exitCode
    /\ UNCHANGED <<configVars, retries, attempt, delayMs, lastErr, response, i, j, logs, collectVars>>

\* console.log('Triggered tests:', response.data); main ends
BatchResolve ==
    /\ pc = "batch_await"
    /\ inFlight' = inFlight - 1
    /\ response' = [location |-> params.location, attempt |-> 1]
    /\ pc' = "done"
    /\ exitCode' = 0
    /\ UNCHANGED <<configVars, retries, params, attempt, delayMs, lastErr, sent, waited,
                   i, j, logs, collectVars>>

\* catch (err): console.error(...); process.exit(1)
BatchReject ==
    /\ pc = "batch_await"
    /\ inFlight' = inFlight - 1
    /\ \E k \in ErrKinds : lastErr' = [kind |-> k, attempt |-> 1]
    /\ pc' = "exited"
    /\ exitCode' = 1
    /\ UNCHANGED <<configVars, retries, params, attempt, delayMs, response, sent, waited,
                   i, j, logs, collectVars>>

----------------------------------------------------------------------------
(* The collector pipeline (src/index.js) *)

\* response.data of a successful test of url u from location l
Data(u, l) == [status |-> "success", url |-> u, location |-> l,
               timestamp |-> Timestamps[3], performance |-> Scores[3]]

\* JSON.parse(fileContent) of a file that holds a JSON array
JSONparse(f) == f.items

\* existingResults after the try/catch of updateResultsFile: the parsed file,
\* or [] when readFile or JSON.parse threw (ENOENT or any other error)
ExistingResults(f) == IF f.kind = "array" THEN JSONparse(f) ELSE <<>>

\* faulty variant of Escapes: ENOENT is rethrown
EscapesOrEnoent(f) == f.kind \in {"object", "absent"}
\* the error that escapes updateResultsFile: the TypeError of spreading a
\* value that is not iterable; the catch block swallows every other one
Escapes(f) == f.kind = "object"

\* faulty variant of Merge: the existing results are dropped
MergeNewOnly(existing, new) == new
\* [...existingResults, ...newResults]
Merge(existing, new) == existing \o new

\* main up to the first await: the API key check
CollectorStart ==
    /\ pc = "start"
    /\ entry = "collector"
    /\ IF KeyMissing(apiKey)
       THEN /\ pc' = "exited"
            /\ exitCode' = 1
       ELSE /\ pc' = "mkdir"
            /\ UNCHANGED exitCode
    /\ UNCHANGED <<configVars, retryVars, netVars, i, j, logs, collectVars>>

\* fs.mkdir(DATA_DIR), fs.mkdir(PUBLIC_DIR); then runAllTests starts
Mkdirs ==
    /\ pc = "mkdir"
    /\ fsOps' = fsOps \o <<"mkdir data", "mkdir public">>
    /\ i' = 1
    /\ j' = 1
    /\ results' = <<>>
    /\ pc' = "run_post"
    /\ UNCHANGED <<configVars, exitCode, retryVars, netVars, logs, file, fileAtStart,
                   allResults, html>>

\* faulty variant of RunPost: the request is not awaited
RunPostNoAwait ==
    /\ pc = "run_post"
    /\ inFlight' = inFlight + 1
    /\ sent' = Append(sent, [url |-> urls[i], location |-> LOCATIONS_TO_TEST[j],
                             attempt |-> 1, wait |-> waited])
    /\ waited' = 0
    /\ pc' = IF inFlight < 2 THEN "run_post" ELSE "run_await"
    /\ UNCHANGED <<configVars, exitCode, retryVars, i, j, logs, collectVars>>
\* runAllTests: axios.post for (urls[i], LOCATIONS_TO_TEST[j])
RunPost ==
    /\ pc = "run_post"
    /\ inFlight' = inFlight + 1
    /\ sent' = Append(sent, [url |-> urls[i], location |-> LOCATIONS_TO_TEST[j],
                             attempt |-> 1, wait |-> waited])
    /\ waited' = 0
    /\ pc' = "run_await"
    /\ UNCHANGED <<configVars, exitCode, retryVars, i, j, logs, collectVars>>

\* faulty variant of RunAdvance: the results are saved after each URL
RunAdvancePerUrl(res) ==
    IF j < Len(LOCATIONS_TO_TEST)
    THEN /\ j' = j + 1
         /\ i' = i
         /\ pc' = "run_post"
         /\ UNCHANGED exitCode
    ELSE /\ UNCHANGED <<i, j>>
         /\ IF Len(res) = 0
            THEN /\ pc' = "done"
                 /\ exitCode' = 0
            ELSE /\ pc' = "update_read"
                 /\ UNCHANGED exitCode
\* faulty variant of RunAdvance: main goes on with an empty results
RunAdvanceAlwaysSaves(res) ==
    IF j < Len(LOCATIONS_TO_TEST)
    THEN /\ j' = j + 1
         /\ i' = i
         /\ pc' = "run_post"
         /\ UNCHANGED exitCode
    ELSE IF i < Len(urls)
    THEN /\ j' = 1
         /\ i' = i + 1
         /\ pc' = "run_post"
         /\ UNCHANGED exitCode
    ELSE /\ UNCHANGED <<i, j>>
         /\ pc' = "update_read"
         /\ UNCHANGED exitCode
\* the end of an iteration of the inner loop: next location, next URL, or
\* return results to main, which ends when results is empty
RunAdvance(res) ==
    IF j < Len(LOCATIONS_TO_TEST)
    THEN /\ j' = j + 1
         /\ i' = i
         /\ pc' = "run_post"
         /\ UNCHANGED exitCode
    ELSE IF i < Len(urls)
    THEN /\ j' = 1
         /\ i' = i + 1
         /\ pc' = "run_post"
         /\ UNCHANGED exitCode
    ELSE /\ UNCHANGED <<i, j>>
         /\ IF Len(res) = 0
            THEN /\ pc' = "done"
                 /\ exitCode' = 0
            ELSE /\ pc' = "update_read"
                 /\ UNCHANGED exitCode

\* the request resolves with data.status === 'success': results.push({...data})
RunResolveSuccess ==
    /\ pc = "run_await"
    /\ inFlight' = inFlight - 1
    /\ results' = Append(results, Data(urls[i], LOCATIONS_TO_TEST[j]))
    /\ RunAdvance(results')
    /\ UNCHANGED <<configVars, retryVars, sent, waited, logs, file, fileAtStart,
                   allResults, html, fsOps>>

\* console.error naming the pair (urls[i], LOCATIONS_TO_TEST[j])
ErrorLine == [url |-> urls[i], location |-> LOCATIONS_TO_TEST[j], line |-> "Error"]

\* the request resolves with another status: console.error, nothing pushed
RunResolveFailure ==
    /\ pc = "run_await"
    /\ inFlight' = inFlight - 1
    /\ logs' = Append(logs, ErrorLine)
    /\ RunAdvance(results)
    /\ UNCHANGED <<configVars, retryVars, sent, waited, collectVars>>

\* the request resolves with a malformed body (no data, or status 'success'
\* without data.data): reading it throws a TypeError inside the try, before
\* results.push; catch (error), console.error
RunResolveMalformed ==
    /\ pc = "run_await"
    /\ inFlight' = inFlight - 1
    /\ logs' = Append(logs, ErrorLine)
    /\ RunAdvance(results)
    /\ UNCHANGED <<configVars, retryVars, sent, waited, collectVars>>

\* faulty variant of RunReject: the error escapes runAllTests and main
RunRejectRethrows ==
    /\ pc = "run_await"
    /\ inFlight' = inFlight - 1
    /\ logs' = Append(logs, ErrorLine)
    /\ pc' = "exited"
    /\ exitCode' = 1
    /\ UNCHANGED <<configVars, retryVars, sent, waited, i, j, collectVars>>
\* the request rejects: catch (error), console.error, nothing pushed
RunReject ==
    /\ pc = "run_await"
    /\ inFlight' = inFlight - 1
    /\ logs' = Append(logs, ErrorLine)
    /\ RunAdvance(results)
    /\ UNCHANGED <<configVars, retryVars, sent, waited, collectVars>>

\* updateResultsFile up to the await of writeFile: readFile, JSON.parse, the
\* catch block, and the spread that builds allResults (a TypeError when the
\* parsed value is not iterable: it escapes to main().catch, process.exit(1))
UpdateRead ==
    /\ pc = "update_read"
    /\ fsOps' = Append(fsOps, "readFile results")
    /\ IF Escapes(file)
       THEN /\ pc' = "exited"
            /\ exitCode' = 1
            /\ UNCHANGED allResults
       ELSE /\ allResults' = Merge(ExistingResults(file), results)
            /\ pc' = "update_write"
            /\ UNCHANGED exitCode
    /\ UNCHANGED <<configVars, retryVars, netVars, i, j, logs, results, file, fileAtStart, html>>

\* fs.writeFile(RESULTS_FILE, JSON.stringify(allResults, null, 2))
UpdateWrite ==
    /\ pc = "update_write"
    /\ fsOps' = Append(fsOps, "writeFile results")
    /\ file' = JSONstringify(allResults)
    /\ pc' = "build"
    /\ UNCHANGED <<configVars, exitCode, retryVars, netVars, i, j, logs, results,
                   fileAtStart, allResults, html>>

----------------------------------------------------------------------------
(* buildStaticPage, generateChartData, generateTablesHtml (src/index.js) *)

\* new Date(ts), as a number of days: the position of ts in Timestamps
DateMs(ts) == CHOOSE n \in 1..Len(Timestamps) : Timestamps[n] = ts

\* new Date(ts).toLocaleString()
ToLocaleString(ts) == <<"1/1/2024, 12:00:00 AM", "1/2/2024, 12:00:00 AM", "1/3/2024, 12:00:00 AM">>[DateMs(ts)]

\* faulty variant of AddToGroup: a later result replaces the group
AddToGroupReplaces(acc, r, field) ==
    IF \E g \in 1..Len(acc) : acc[g].key = r[field]
    THEN LET g == CHOOSE g \in 1..Len(acc) : acc[g].key = r[field]
         IN [acc EXCEPT ![g].items = <<r>>]
    ELSE Append(acc, [key |-> r[field], items |-> <<r>>])
\* the reducer of both groupings: if (!acc[key]) acc[key] = []; acc[key].push(r).
\* An object is a sequence of [key, items] in insertion order, the order in
\* which for...in enumerates it.
AddToGroup(acc, r, field) ==
    IF \E g \in 1..Len(acc) : acc[g].key = r[field]
    THEN LET g == CHOOSE g \in 1..Len(acc) : acc[g].key = r[field]
         IN [acc EXCEPT ![g].items = Append(@, r)]
    ELSE Append(acc, [key |-> r[field], items |-> <<r>>])

\* rs.reduce(reducer, {}) from element n on
RECURSIVE Reduce(_, _, _, _)
Reduce(acc, rs, n, field) ==
    IF n > Len(rs) THEN acc
    ELSE Reduce(AddToGroup(acc, rs[n], field), rs, n + 1, field)

\* results.reduce(...): results grouped by URL
GroupedByUrl(rs) == Reduce(<<>>, rs, 1, "url")

\* groupedByUrl[url].reduce(...): the results of a URL grouped by location
ByLocation(rs) == Reduce(<<>>, rs, 1, "location")

\* r put into a sequence sorted newest first, behind every element that is
\* not older than r
InsertByDateDesc(sorted, r) ==
    LET older == { k \in 1..Len(sorted) : DateMs(sorted[k].timestamp) < DateMs(r.timestamp) }
        at == IF older = {} THEN Len(sorted) + 1
              ELSE CHOOSE k \in older : \A m \in older : k <= m
    IN SubSeq(sorted, 1, at - 1) \o <<r>> \o SubSeq(sorted, at, Len(sorted))

\* rs.sort((a, b) => new Date(b.timestamp) - new Date(a.timestamp)): newest
\* first, results of equal date in their former order (the sort is stable)
RECURSIVE SortByDateDesc(_)
SortByDateDesc(rs) ==
    IF rs = <<>> THEN <<>>
    ELSE InsertByDateDesc(SortByDateDesc(SubSeq(rs, 1, Len(rs) - 1)), rs[Len(rs)])

\* groupedByUrl after the loop that sorts the results of each URL
SortedGroups(rs) ==
    LET g == GroupedByUrl(rs)
    IN [n \in 1..Len(g) |-> [key |-> g[n].key, items |-> SortByDateDesc(g[n].items)]]

\* colorPalette
colorPalette == <<"#3b82f6", "#ef4444", "#22c55e", "#eab308", "#8b5cf6", "#f97316", "#14b8a6", "#64748b">>

\* the series of one URL: one per location, points in the order of the group
UrlSeries(group) ==
    LET byLocation == ByLocation(group.items)
    IN [n \in 1..Len(byLocation) |->
           [url |-> group.key,
            location |-> byLocation[n].key,
            data |-> [k \in 1..Len(byLocation[n].items) |->
                         [x |-> byLocation[n].items[k].timestamp,
                          y |-> byLocation[n].items[k].performance]]]]

\* the series of the URLs from group n on, in the order of the two loops
RECURSIVE AllSeries(_, _)
AllSeries(groups, n) ==
    IF n > Len(groups) THEN <<>>
    ELSE UrlSeries(groups[n]) \o AllSeries(groups, n + 1)

\* generateChartData(groupedByUrl): datasets, with
\* colorPalette[colorIndex % colorPalette.length] for the colorIndex-th series
generateChartData(groups) ==
    LET series == AllSeries(groups, 1)
    IN [n \in 1..Len(series) |->
           [url |-> series[n].url,
            location |-> series[n].location,
            data |-> series[n].data,
            borderColor |-> colorPalette[((n - 1) % Len(colorPalette)) + 1]]]

\* faulty variant of ScoreClass: 90 is not green
ScoreClassAbove(s) ==
    IF s > 90 THEN "text-green-600"
    ELSE IF s >= 50 THEN "text-yellow-600"
    ELSE "text-red-600"
\* the class of the Score cell of a table row
ScoreClass(s) ==
    IF s >= 90 THEN "text-green-600"
    ELSE IF s >= 50 THEN "text-yellow-600"
    ELSE "text-red-600"

\* generateTablesHtml(groupedByUrl): one table per URL, one row per result
\* (the lcp, fcp and cls cells are copies of fields and are left out)
generateTablesHtml(groups) ==
    [n \in 1..Len(groups) |->
        [url |-> groups[n].key,
         rows |-> [k \in 1..Len(groups[n].items) |->
                      [date |-> ToLocaleString(groups[n].items[k].timestamp),
                       location |-> groups[n].items[k].location,
                       score |-> groups[n].items[k].performance,
                       class |-> ScoreClass(groups[n].items[k].performance)]]]]

\* htmlContent: the data of the chart and the tables
HtmlContent(rs) ==
    [kind |-> "report",
     chart |-> generateChartData(SortedGroups(rs)),
     tables |-> generateTablesHtml(SortedGroups(rs))]

\* faulty variant of BuildStaticPage: the results passed are sorted in place
BuildStaticPageSortsInput ==
    /\ pc = "build"
    /\ fsOps' = Append(fsOps, "writeFile html")
    /\ allResults' = SortByDateDesc(allResults)
    /\ html' = HtmlContent(allResults)
    /\ pc' = "done"
    /\ exitCode' = 0
    /\ UNCHANGED <<configVars, retryVars, netVars, i, j, logs, results, file,
                   fileAtStart>>
\* buildStaticPage(allResults): the groups are new arrays, so results is
\* left as it is; fs.writeFile(OUTPUT_HTML_FILE, htmlContent); main ends
BuildStaticPage ==
    /\ pc = "build"
    /\ fsOps' = Append(fsOps, "writeFile html")
    /\ html' = HtmlContent(allResults)
    /\ pc' = "done"
    /\ exitCode' = 0
    /\ UNCHANGED <<configVars, retryVars, netVars, i, j, logs, results, file,
                   fileAtStart, allResults>>

----------------------------------------------------------------------------
(* Specifications *)

Next ==
    \/ SubmitterStart
    \/ Post
    \/ PostResolve
    \/ PostReject
    \/ Backoff
    \/ MainSuccess
    \/ MainFailure
    \/ Throttle
    \/ BatchStart
    \/ BatchResolve
    \/ BatchReject
    \/ CollectorStart
    \/ Mkdirs
    \/ RunPost
    \/ RunResolveSuccess
    \/ RunResolveFailure
    \/ RunResolveMalformed
    \/ RunReject
    \/ UpdateRead
    \/ UpdateWrite
    \/ BuildStaticPage

\* one run of one of the three scripts
Spec == Init /\ [][Next]_vars

\* a direct call safeRequestWithRetry(params, retries), 1 <= retries <= MaxRetries
InitRetry ==
    /\ entry = "call"
    /\ file = NoFile
    /\ pc = "post"
    /\ retries \in 1..MaxRetries
    /\ params \in { SubmitterParams(n) : n \in 1..Len(LOCATIONS_TO_TEST) }
    /\ attempt = 1
    /\ delayMs = BaseDelayMs
    /\ InitCommon

NextRetry ==
    \/ Post
    \/ PostResolve
    \/ PostReject
    \/ Backoff

SpecRetry == InitRetry /\ [][NextRetry]_vars

\* one run of the retrying submitter; the event loop runs every timer and
\* every callback of a settled request, and every request is settled
InitSubmit ==
    /\ entry = "submitter"
    /\ file = NoFile
    /\ pc = "start"
    /\ retries = DefaultRetries
    /\ params = NoParams
    /\ attempt = 0
    /\ delayMs = 0
    /\ InitCommon

NextSubmit ==
    \/ SubmitterStart
    \/ Post
    \/ PostResolve
    \/ PostReject
    \/ Backoff
    \/ MainSuccess
    \/ MainFailure
    \/ Throttle

SpecSubmit == InitSubmit /\ [][NextSubmit]_vars /\ WF_vars(NextSubmit)

\* URLs of the results passed to a direct call of buildStaticPage
ReportUrls == {"https://a.test", "https://b.test"}

\* locations of the results passed to a direct call of buildStaticPage
ReportLocations == {"uk", "in"}

\* results that a dataset passed to buildStaticPage can hold
ReportResults ==
    { [status |-> "success", url |-> u, location |-> l,
       timestamp |-> Timestamps[t], performance |-> Scores[t]] :
      u \in ReportUrls, l \in ReportLocations, t \in 1..Len(Timestamps) }

\* datasets passed to buildStaticPage
Datasets == UNION { [1..m -> ReportResults] : m \in 0..MaxResults }

\* a direct call buildStaticPage(results) of a stored dataset out of D
InitBuild(D) ==
    /\ entry = "report"
    /\ pc = "build"
    /\ allResults \in D
    /\ file = JSONstringify(allResults)
    /\ fileAtStart = file
    /\ apiKey = "set"
    /\ urls = DEFAULT_URLS
    /\ exitCode = -1
    /\ retries = DefaultRetries
    /\ params = NoParams
    /\ attempt = 0
    /\ delayMs = 0
    /\ lastErr = NoErr
    /\ response = NoResponse
    /\ inFlight = 0
    /\ sent = <<>>
    /\ waited = 0
    /\ i = 1
    /\ j = 1
    /\ logs = <<>>
    /\ results = <<>>
    /\ html = NoHtml
    /\ fsOps = <<>>

InitReport == InitBuild(Datasets)

NextReport == BuildStaticPage

SpecReport == InitReport /\ [][NextReport]_vars

\* datasets of one result, one for each performance score 0..100
ScoreDatasets ==
    { <<[status |-> "success", url |-> "https://a.test", location |-> "uk",
         timestamp |-> Timestamps[1], performance |-> sc]>> : sc \in 0..100 }

\* a direct call buildStaticPage(results) of a result of any score
InitScores == InitBuild(ScoreDatasets)

NextScores == BuildStaticPage

SpecScores == InitScores /\ [][NextScores]_vars

----------------------------------------------------------------------------
(* Properties *)

RECURSIVE Pow2(_)
Pow2(n) == IF n = 0 THEN 1 ELSE 2 * Pow2(n - 1)

\* position of location l in LOCATIONS_TO_TEST
LocIndex(l) == CHOOSE n \in 1..Len(LOCATIONS_TO_TEST) : LOCATIONS_TO_TEST[n] = l

\* the n-th (URL, location) pair of the nested loops over us (outer) and
\* LOCATIONS_TO_TEST (inner)
NestedPair(us, n) ==
    [url |-> us[((n - 1) \div Len(LOCATIONS_TO_TEST)) + 1],
     location |-> LOCATIONS_TO_TEST[((n - 1) % Len(LOCATIONS_TO_TEST)) + 1]]

\* position of the pair (r.url, r.location) in the nested loops of the run
PairIndex(r) ==
    ((CHOOSE n \in 1..Len(urls) : urls[n] = r.url) - 1) * Len(LOCATIONS_TO_TEST)
        + LocIndex(r.location)

\* C1 (SpecRetry): a call safeRequestWithRetry(params, retries), retries >= 1,
\* makes at most `retries` POST attempts, numbered 1, 2, ... in order, and
\* the wait before attempt k >= 2 is 1000 * 2^(k-2) ms: 1000 ms before
\* attempt 2, each later wait double the one before.
C1_AttemptsAndBackoff ==
    /\ Len(sent) <= retries
    /\ \A n \in 1..Len(sent) :
          /\ sent[n].attempt = n
          /\ n >= 2 => sent[n].wait = 1000 * Pow2(n - 2)
          /\ n >= 3 => sent[n].wait = 2 * sent[n - 1].wait

\* C1 witness: a call with retries = 4 whose four attempts all failed
C1_Witness ==
    /\ entry = "call"
    /\ retries = 4
    /\ pc = "thrown"
    /\ Len(sent) = 4
    /\ sent[4].wait = 4000

\* C2 (SpecRetry): safeRequestWithRetry returns the response of the first
\* attempt that succeeds and issues no request after it; when all `retries`
\* attempts fail it throws the error of the last attempt, with no backoff
\* wait after that last failure.
C2_ReturnFirstThrowLast ==
    /\ pc = "returned" => /\ response.attempt = Len(sent)
                          /\ response.attempt = attempt
                          /\ response.location = params.location
    /\ response # NoResponse => pc = "returned"
    /\ pc = "thrown" => /\ lastErr.attempt = retries
                        /\ Len(sent) = retries
                        /\ waited = 0
    /\ pc = "backoff" => attempt < retries

\* C2 witness: a call with retries = 3 that throws the error of attempt 3
C2_Witness ==
    /\ entry = "call"
    /\ retries = 3
    /\ pc = "thrown"
    /\ lastErr.attempt = 3
    /\ lastErr.kind = "transient"

\* C3 (Spec): the submitter loop processes each location exactly once, in
\* list order; a location whose attempts all fail is logged as failed, the
\* later locations are still requested, and the run ends with exit code 0.
C3_LoopContinuesAfterFailure ==
    (entry = "submitter" /\ apiKey = "set") =>
        /\ exitCode \in {-1, 0}
        /\ Len(logs) <= Len(LOCATIONS_TO_TEST)
        /\ \A n \in 1..Len(logs) :
              /\ logs[n].location = LOCATIONS_TO_TEST[n]
              /\ \E k \in 1..Len(sent) : sent[k].location = LOCATIONS_TO_TEST[n]
              /\ logs[n].line = "Failed" <=> logs[n].err.attempt = 3
        /\ pc \in {"post", "await", "backoff", "returned", "thrown"} => Len(logs) = j - 1
        /\ pc = "throttle" => Len(logs) = j
        /\ pc = "done" => /\ Len(logs) = Len(LOCATIONS_TO_TEST)
                          /\ exitCode = 0

\* C3 witness: a finished run in which the first and the last location
\* failed and the second succeeded
C3_Witness ==
    /\ entry = "submitter"
    /\ pc = "done"
    /\ exitCode = 0
    /\ logs[1].line = "Failed"
    /\ logs[2].line = "Success"
    /\ logs[5].line = "Failed"

\* C4 (Spec): in the submitter loop the first request of every location
\* after the first is issued after a 2000 ms delay, whether the previous
\* location succeeded or exhausted its retries; no two requests of different
\* locations are issued without that delay between them.
C4_ThrottleBetweenLocations ==
    entry = "submitter" =>
        \A n \in 2..Len(sent) :
            (sent[n].attempt = 1 \/ sent[n].location # sent[n - 1].location)
                => sent[n].wait = 2000

\* C4 witness: the first location exhausted its three attempts and the
\* second location's first request has been issued
C4_Witness ==
    /\ entry = "submitter"
    /\ Len(logs) >= 1
    /\ logs[1].line = "Failed"
    /\ Len(sent) = 4
    /\ sent[4].location = "in"

\* C5 (Spec): in every script at most one provider request is in flight at
\* any time, and the requests are issued in nested-loop order: the collector
\* issues pair n of (outer URL, inner location) as its n-th request, the
\* submitter issues the requests of a location before those of the next,
\* and the batch script issues one request.
C5_OneInFlightInOrder ==
    /\ inFlight \in {0, 1}
    /\ entry = "collector" =>
          /\ Len(sent) <= Len(urls) * Len(LOCATIONS_TO_TEST)
          /\ \A n \in 1..Len(sent) :
                /\ sent[n].url = NestedPair(urls, n).url
                /\ sent[n].location = NestedPair(urls, n).location
    /\ entry = "submitter" =>
          \A n \in 2..Len(sent) :
              /\ LocIndex(sent[n - 1].location) <= LocIndex(sent[n].location)
              /\ sent[n - 1].url = sent[n].url
    /\ entry = "batch" => Len(sent) <= 1

\* C5 witness: the collector, with two URLs, has its tenth request in flight
C5_Witness ==
    /\ entry = "collector"
    /\ Len(urls) = 2
    /\ Len(sent) = 10
    /\ inFlight = 1

\* the results file existed when the run started but cannot be read or
\* parsed as the dataset
CorruptAtStart == fileAtStart.kind \in {"badjson", "unreadable", "object"}

\* C6 (Spec), as claimed: when the results file exists but cannot be read or
\* parsed as the dataset, updateResultsFile propagates the error, the run
\* fails, and the file is not written.
C6_CorruptFileIsFatal ==
    (entry = "collector" /\ CorruptAtStart) =>
        /\ file = fileAtStart
        /\ pc \notin {"update_write", "build"}
        /\ (pc = "done" => results = <<>>)

\* C7 (Spec), as claimed: the stored dataset only grows; after a run it is
\* the dataset stored before the run followed by the run's new results.
C7_DatasetOnlyGrows ==
    entry = "collector" =>
        /\ Len(file.items) >= Len(fileAtStart.items)
        /\ SubSeq(file.items, 1, Len(fileAtStart.items)) = fileAtStart.items
        /\ (pc = "done" /\ results # <<>>) => file.items = fileAtStart.items \o results

\* C8 (Spec): the merged dataset of updateResultsFile has length
\* len(E) + len(I) and is E, unchanged and in order, followed by I,
\* unchanged and in order; that dataset is what is written.
C8_MergeIsAppend ==
    (entry = "collector" /\ pc \in {"update_write", "build"}) =>
        LET E == IF fileAtStart.kind = "array" THEN fileAtStart.items ELSE <<>>
            I == results
        IN /\ Len(allResults) = Len(E) + Len(I)
           /\ \A n \in 1..Len(E) : allResults[n] = E[n]
           /\ \A n \in 1..Len(I) : allResults[Len(E) + n] = I[n]
           /\ pc = "build" => file.items = allResults

\* C8 witness: two stored results merged with two new ones and written
C8_Witness ==
    /\ entry = "collector"
    /\ pc = "build"
    /\ fileAtStart.kind = "array"
    /\ Len(fileAtStart.items) = 2
    /\ Len(results) = 2
    /\ Len(allResults) = 4

\* C9 (Spec): when the results file does not exist, updateResultsFile takes
\* the history as empty and does not fail, and after the run the file holds
\* exactly the newly fetched results, in fetch order.
C9_MissingFileIsEmptyHistory ==
    (entry = "collector" /\ apiKey = "set" /\ fileAtStart.kind = "absent") =>
        /\ exitCode \in {-1, 0}
        /\ pc \in {"update_write", "build"} => allResults = results
        /\ pc \in {"build", "done"} /\ results # <<>> =>
              /\ file.kind = "array"
              /\ file.items = results
        /\ \A n \in 1..Len(results) :
              /\ PairIndex(results[n]) <= Len(sent)
              /\ n > 1 => PairIndex(results[n - 1]) < PairIndex(results[n])

\* C9 witness: a finished run that started without a results file and
\* fetched three results
C9_Witness ==
    /\ entry = "collector"
    /\ fileAtStart.kind = "absent"
    /\ pc = "done"
    /\ exitCode = 0
    /\ Len(results) = 3
    /\ file.items = results

\* C10 (Spec): in every script, when the API key is absent the process ends
\* with a non-zero exit code before any provider request is issued and
\* before any file or directory is created or written.
C10_NoKeyNoSideEffect ==
    apiKey \in {"unset", "empty"} =>
        /\ sent = <<>>
        /\ inFlight = 0
        /\ fsOps = <<>>
        /\ file = fileAtStart
        /\ html = NoHtml
        /\ pc \in {"start", "exited"}
        /\ pc = "exited" => exitCode = 1
        /\ exitCode \in {-1, 1}

\* C10 witness: the collector has exited with code 1 for lack of a key
C10_Witness ==
    /\ entry = "collector"
    /\ apiKey = "unset"
    /\ pc = "exited"
    /\ exitCode = 1

\* pairs of the requests issued so far that have been settled
SettledCount == Len(sent) - inFlight

\* C11 (Spec): runAllTests never raises: a pair whose request fails
\* (rejected, non-success status, malformed body) is logged and adds nothing
\* to results, every later pair is still requested, and when every pair
\* fails the returned sequence is empty.
C11_RunAllTestsNeverRaises ==
    (entry = "collector" /\ apiKey = "set") =>
        /\ pc \in {"run_post", "run_await"} => exitCode = -1
        /\ pc = "exited" => "readFile results" \in { fsOps[n] : n \in 1..Len(fsOps) }
        /\ Len(results) + Len(logs) = SettledCount
        /\ LET logged == { PairIndex(logs[n]) : n \in 1..Len(logs) }
               pushed == { PairIndex(results[n]) : n \in 1..Len(results) }
           IN /\ Cardinality(logged) = Len(logs)
              /\ Cardinality(pushed) = Len(results)
              /\ logged \cap pushed = {}
              /\ logged \cup pushed = 1..SettledCount
        /\ pc \in {"update_read", "update_write", "build", "done", "exited"} =>
              Len(sent) = Len(urls) * Len(LOCATIONS_TO_TEST)
        /\ Len(logs) = Len(urls) * Len(LOCATIONS_TO_TEST) => results = <<>>

\* C11 witness: every pair of two URLs failed and the run ended with no result
C11_Witness ==
    /\ entry = "collector"
    /\ Len(urls) = 2
    /\ pc = "done"
    /\ Len(logs) = 10
    /\ results = <<>>
    /\ exitCode = 0

\* number of positions of seq that satisfy Test
CountIf(seq, Test(_)) == Cardinality({ n \in 1..Len(seq) : Test(seq[n]) })

\* sum of the lengths of field f of the elements of seq, from element n on
RECURSIVE TotalLen(_, _, _)
TotalLen(seq, f, n) == IF n > Len(seq) THEN 0 ELSE Len(seq[n][f]) + TotalLen(seq, f, n + 1)

\* C12 (SpecReport), as claimed: in the chart data, adjacent points of every
\* series are in ascending order of timestamp.
C12_SeriesChronological ==
    (entry = "report" /\ pc = "done") =>
        \A n \in 1..Len(html.chart) :
            \A k \in 1..(Len(html.chart[n].data) - 1) :
                DateMs(html.chart[n].data[k].x) <= DateMs(html.chart[n].data[k + 1].x)

\* C13 (SpecReport): grouping by URL and then by location is a partition:
\* the tables have distinct URLs, the series distinct (URL, location) pairs,
\* every result of the dataset is a row of the table of its URL and a point of
\* the series of its URL and location as many times as it is in the dataset,
\* and the rows and the points each number the length of the dataset.
C13_GroupingIsPartition ==
    (entry = "report" /\ pc = "done") =>
        /\ TotalLen(html.tables, "rows", 1) = Len(allResults)
        /\ TotalLen(html.chart, "data", 1) = Len(allResults)
        /\ \A m, n \in 1..Len(html.tables) :
              html.tables[m].url = html.tables[n].url => m = n
        /\ \A m, n \in 1..Len(html.chart) :
              (html.chart[m].url = html.chart[n].url
                 /\ html.chart[m].location = html.chart[n].location) => m = n
        /\ \A r \in ReportResults :
              LET inDataset == CountIf(allResults, LAMBDA e : e = r)
                  row == [date |-> ToLocaleString(r.timestamp), location |-> r.location,
                          score |-> r.performance, class |-> ScoreClass(r.performance)]
                  point == [x |-> r.timestamp, y |-> r.performance]
              IN /\ \A n \in 1..Len(html.tables) :
                        CountIf(html.tables[n].rows, LAMBDA e : e = row /\ html.tables[n].url = r.url)
                            = IF html.tables[n].url = r.url THEN inDataset ELSE 0
                 /\ \A n \in 1..Len(html.chart) :
                        html.chart[n].url = r.url /\ html.chart[n].location = r.location
                            => CountIf(html.chart[n].data, LAMBDA e : e = point) = inDataset
                 /\ inDataset > 0 =>
                        /\ \E n \in 1..Len(html.tables) : html.tables[n].url = r.url
                        /\ \E n \in 1..Len(html.chart) :
                              html.chart[n].url = r.url /\ html.chart[n].location = r.location

\* C13 witness: a report of three results, one of them twice, in two tables
\* and two series
C13_Witness ==
    /\ entry = "report"
    /\ pc = "done"
    /\ Len(allResults) = 3
    /\ allResults[1] = allResults[3]
    /\ allResults[1].url # allResults[2].url
    /\ Len(html.tables) = 2
    /\ Len(html.chart) = 2

\* C15 (SpecScores): the Score cell of a row is green iff the score is at
\* least 90, yellow iff it is at least 50 and below 90, and red iff it is
\* below 50, for every score 0..100.
C15_ScoreBands ==
    (entry = "report" /\ pc = "done") =>
        \A n \in 1..Len(html.tables) :
            \A k \in 1..Len(html.tables[n].rows) :
                LET row == html.tables[n].rows[k]
                IN /\ row.class \in {"text-green-600", "text-yellow-600", "text-red-600"}
                   /\ row.class = "text-green-600" <=> row.score >= 90
                   /\ row.class = "text-yellow-600" <=> (row.score >= 50 /\ row.score < 90)
                   /\ row.class = "text-red-600" <=> row.score < 50

\* C15 witness: a row of score 90, green
C15_Witness ==
    /\ entry = "report"
    /\ pc = "done"
    /\ Len(html.tables) = 1
    /\ html.tables[1].rows[1].score = 90
    /\ html.tables[1].rows[1].class = "text-green-600"

\* C16 (SpecReport): building the report changes no stored data: the
\* results passed keep their elements, order and field values, and the
\* results file is not written.
C16_BuildChangesNoData ==
    entry = "report" =>
        /\ allResults = fileAtStart.items
        /\ file = fileAtStart
        /\ \A n \in 1..Len(fsOps) : fsOps[n] = "writeFile html"

\* C16 witness: a report built of two results of one URL stored oldest first
C16_Witness ==
    /\ entry = "report"
    /\ pc = "done"
    /\ html.kind = "report"
    /\ Len(allResults) = 2
    /\ allResults[1].url = allResults[2].url
    /\ DateMs(allResults[1].timestamp) < DateMs(allResults[2].timestamp)

\* positions of the file-system call op in fsOps
OpsAt(op) == { n \in 1..Len(fsOps) : fsOps[n] = op }

\* every configured pair has been requested and every request is settled
AllRequestsFinished ==
    /\ Len(sent) = Len(urls) * Len(LOCATIONS_TO_TEST)
    /\ inFlight = 0

\* what C17 says of the reads and writes of data/results.json apart from the
\* time of the read: at most one read, at most one write, the read first,
\* the write after all requests
ReadOnceWriteOnce ==
    /\ Cardinality(OpsAt("readFile results")) <= 1
    /\ Cardinality(OpsAt("writeFile results")) <= 1
    /\ \A r \in OpsAt("readFile results") : \A w \in OpsAt("writeFile results") : r < w
    /\ OpsAt("writeFile results") # {} => OpsAt("readFile results") # {}
    /\ pc = "update_write" => AllRequestsFinished
    /\ OpsAt("writeFile results") # {} => AllRequestsFinished

C18_RetryIgnoresErrorKind ==
    \A kind \in ErrKinds :
        (lastErr.kind = kind /\ lastErr.attempt = attempt) =>
            /\ pc = IF attempt = retries THEN "thrown" ELSE "backoff"
            /\ delayMs = 1000 * Pow2(attempt - 1)

\* C18 witness: a permanent error of attempt 2 is followed by a backoff
C18_Witness ==
    /\ entry = "call"
    /\ pc = "backoff"
    /\ lastErr.kind = "permanent"
    /\ lastErr.attempt = 2
    /\ delayMs = 2000

\* C19 (Spec): a run of the collector that collects no new result ends
\* normally without reading or writing the results file and without writing
\* the report; both files are as they were before the run.
C19_NoResultsNoWrites ==
    (entry = "collector" /\ results = <<>>) =>
        /\ pc \in {"start", "mkdir", "run_post", "run_await", "done", "exited"}
        /\ file = fileAtStart
        /\ html = NoHtml
        /\ OpsAt("readFile results") = {}
        /\ OpsAt("writeFile results") = {}
        /\ OpsAt("writeFile html") = {}
        /\ pc = "done" => exitCode = 0
        /\ apiKey = "set" => exitCode \in {-1, 0}

\* C19 witness: a run that found two stored results, fetched none and ended
C19_Witness ==
    /\ entry = "collector"
    /\ pc = "done"
    /\ exitCode = 0
    /\ results = <<>>
    /\ Len(sent) = 5
    /\ fileAtStart.kind = "array"
    /\ Len(fileAtStart.items) = 2
    /\ file = fileAtStart

\* each location starts with attempt 1 and a first backoff of 1000 ms, and a
\* run issues at most 3 requests per location
OwnRetryBudget ==
    /\ Len(sent) <= 3 * Len(LOCATIONS_TO_TEST)
    /\ \A n \in 1..Len(sent) :
          /\ sent[n].attempt \in 1..3
          /\ (n = 1 \/ sent[n].location # sent[IF n = 1 THEN 1 ELSE n - 1].location)
                => sent[n].attempt = 1
          /\ sent[n].attempt = 2 => sent[n].wait = 1000
          /\ Cardinality({ k \in 1..Len(sent) : sent[k].location = sent[n].location }) <= 3

\* C20 (SpecSubmit): every location has its own retry budget and backoff
\* state, whatever happened to the earlier locations; a run of the submitter
\* issues at most 3 * |LOCATIONS_TO_TEST| requests and, every request being
\* settled, terminates.
C20_OwnBudgetAndTermination ==
    /\ [](entry = "submitter" => OwnRetryBudget)
    /\ <>(pc \in {"done", "exited"})

\* C20 witness: a finished run in which every attempt of every location
\* failed
C20_Witness ==
    /\ entry = "submitter"
    /\ pc = "done"
    /\ Len(sent) = 15
    /\ sent[5].attempt = 2
    /\ sent[5].wait = 1000
    /\ sent[15].wait = 2000

====
